---- MODULE Spec2Model ----
(***************************************************************************)
(* Model of src/stram.py: the proximity ranking get_closest_carriers over  *)
(* the pandas carrier table, and the session message list of the chat      *)
(* page of main.                                                           *)
(*                                                                         *)
(* Library behaviour the code relies on (geopy 2.x, pandas):               *)
(*  - geodesic(a, b) builds a Point from each tuple; Point raises          *)
(*    ValueError for a non-finite or non-numeric value and for             *)
(*    |latitude| > 90, and wraps a longitude outside [-180, 180] into it.  *)
(*  - DataFrame.nsmallest(n, col) returns no row for n <= 0; for           *)
(*    n < len(frame) it takes the n smallest with a stable (mergesort)     *)
(*    order, keep='first'; for n >= len(frame) it falls back to            *)
(*    sort_values(col).head(n) with the default quicksort, which leaves    *)
(*    the order of equal keys unspecified.                                 *)
(*  - float('inf') is an ordinary float for nsmallest: it is not dropped.  *)
(***************************************************************************)
EXTENDS Integers, Sequences, FiniteSets, TLC

VARIABLES
    geocoded_data,  \* the carrier table (a DataFrame): [columns, rows, distance]
    call,           \* caller -> the invocation of get_closest_carriers it runs
    session_state,  \* st.session_state of the chat page: [has_messages, messages]
    run             \* the script run of main in progress: [pc, page, prompt, chat_model, response]

vars == <<geocoded_data, call, session_state, run>>

(* ------------------------------ bounds --------------------------------- *)

MaxRows == 3        \* rows of the carrier table
MaxN == 3           \* largest n requested
MaxMessages == 5    \* length of the session message list

(* ------------------------------ values --------------------------------- *)

\* float('inf') of calculate_distance, larger than every distance in km.
Inf == 1000000

\* Values of a 'lat' or 'long' cell or dictionary entry: a number of degrees,
\* NaN (an empty CSV cell), a non-numeric text, or no entry under the key.
Num(x) == [kind |-> "num", v |-> x]
NaN == [kind |-> "nan", v |-> 0]
Text == [kind |-> "text", v |-> 0]
Absent == [kind |-> "absent", v |-> 0]

(* ------------------------- geopy.distance.geodesic --------------------- *)

\* Point: float(value) and the finiteness and latitude range checks.
PointRaises(lat, long) ==
    \/ lat.kind # "num" \/ long.kind # "num"
    \/ lat.v > 90 \/ lat.v < -90

\* Point: a longitude outside [-180, 180] is wrapped, not rejected.
NormLong(x) == IF x > 180 \/ x < -180 THEN ((x + 180) % 360) - 180 ELSE x

\* Unit vector of a point whose latitude and longitude are multiples of 90.
CosDeg(d) == CASE d % 360 = 0 -> 1 [] d % 360 = 180 -> -1 [] OTHER -> 0
SinDeg(d) == CASE d % 360 = 90 -> 1 [] d % 360 = 270 -> -1 [] OTHER -> 0
UnitVec(lat, long) ==
    <<CosDeg(lat) * CosDeg(long), CosDeg(lat) * SinDeg(long), SinDeg(lat)>>

\* Kilometres on the WGS-84 ellipsoid between two such points: 0 for the same
\* point, a quadrant of the equator (10019) or of a meridian (10002) for
\* points 90 degrees apart, half a meridian ellipse (20004) for antipodes.
GeodesicKm(lat1, long1, lat2, long2) ==
    LET a == UnitVec(lat1, NormLong(long1))
        b == UnitVec(lat2, NormLong(long2))
        dot == a[1] * b[1] + a[2] * b[2] + a[3] * b[3]
    IN  CASE dot = 1 -> 0
          [] dot = -1 -> 20004
          [] OTHER -> IF a[3] = 0 /\ b[3] = 0 THEN 10019 ELSE 10002

\* calculate_distance(row): the geodesic distance, or inf on any exception.
calculate_distance(user_coords, row) ==
    IF PointRaises(user_coords[1], user_coords[2]) \/ PointRaises(row.lat, row.long)
    THEN Inf
    ELSE GeodesicKm(user_coords[1].v, user_coords[2].v, row.lat.v, row.long.v)

(* ------------------------------ DataFrame ------------------------------ *)

CsvColumns == {"carrier_name", "state", "address", "lat", "long"}
ResultColumns == CsvColumns \cup {"distance"}

\* pd.DataFrame(): no column, no row.
EmptyFrame == [columns |-> {}, rows |-> <<>>]

\* geocoded_data.apply(calculate_distance, axis = 1): one value per row.
ApplyDistance(frame, user_coords) ==
    [i \in 1..Len(frame.rows) |-> calculate_distance(user_coords, frame.rows[i])]

\* geocoded_data['distance'] = series: the column is added to (or replaced
\* in) the table itself.
SetDistance(frame, series) ==
    [frame EXCEPT !.columns = @ \cup {"distance"}, !.distance = series]

\* Index sequences in ascending order of their key.
Ascending(keys, idx) ==
    \A i \in 1..Len(idx) - 1 : keys[idx[i]] <= keys[idx[i + 1]]
\* ... with equal keys in table order (a stable sort).
StableAscending(keys, idx) ==
    \A i \in 1..Len(idx) - 1 :
        \/ keys[idx[i]] < keys[idx[i + 1]]
        \/ keys[idx[i]] = keys[idx[i + 1]] /\ idx[i] < idx[i + 1]

Permutations1(len) ==
    {p \in [1..len -> 1..len] : \A i, j \in 1..len : p[i] = p[j] => i = j}

\* frame.nsmallest(n, 'distance'): the row positions it may return, in order.
nsmallest(keys, n) ==
    LET len == Len(keys) IN
    IF n <= 0 THEN {<<>>}
    ELSE IF n >= len
    THEN \* sort_values(kind = 'quicksort').head(n)
         {p \in Permutations1(len) : Ascending(keys, p)}
    ELSE \* kth_smallest, then argsort(kind = 'mergesort'), keep = 'first'
         {SubSeq(p, 1, n) : p \in {q \in Permutations1(len) : StableAscending(keys, q)}}

\* closest_carriers[[...]]: KeyError when a listed column is missing.
ProjectionRaises(frame) == ~(ResultColumns \subseteq frame.columns)

\* The rows at the positions idx, with their index label and distance.
TakeRows(frame, idx) ==
    [k \in 1..Len(idx) |->
        [index |-> idx[k],
         carrier_name |-> frame.rows[idx[k]].carrier_name,
         lat |-> frame.rows[idx[k]].lat,
         long |-> frame.rows[idx[k]].long,
         distance |-> frame.distance[idx[k]]]]

(* ------------------------- get_closest_carriers ------------------------ *)

Callers == DOMAIN call

\* line 99: user_coords = (user_location['lat'], user_location['long']); a
\* missing key raises KeyError, which the outer handler turns into st.error
\* and an empty DataFrame.
ReadUser(c) ==
    /\ call[c].pc = "start"
    /\ LET u == call[c].user_location IN
       IF u.lat.kind = "absent" \/ u.long.kind = "absent"
       THEN call' = [call EXCEPT ![c].pc = "done", ![c].st_error = TRUE,
                                 ![c].returned = EmptyFrame]
       ELSE call' = [call EXCEPT ![c].pc = "apply",
                                 ![c].user_coords = <<u.lat, u.long>>]
    /\ UNCHANGED <<geocoded_data, session_state, run>>

\* line 107: geocoded_data['distance'] = geocoded_data.apply(...).
AssignDistance(c) ==
    /\ call[c].pc = "apply"
    /\ geocoded_data' =
           SetDistance(geocoded_data, ApplyDistance(geocoded_data, call[c].user_coords))
    /\ call' = [call EXCEPT ![c].pc = "select"]
    /\ UNCHANGED <<session_state, run>>

\* lines 108-113: nsmallest over the table's distance column, the column
\* projection, and the handler of any exception.
SelectClosest(c) ==
    /\ call[c].pc = "select"
    /\ \E idx \in nsmallest(geocoded_data.distance, call[c].n) :
          IF ProjectionRaises(geocoded_data)
          THEN call' = [call EXCEPT ![c].pc = "done", ![c].st_error = TRUE,
                                    ![c].returned = EmptyFrame]
          ELSE call' = [call EXCEPT ![c].pc = "done",
                           ![c].returned = [columns |-> ResultColumns,
                                            rows |-> TakeRows(geocoded_data, idx)]]
    /\ UNCHANGED <<geocoded_data, session_state, run>>

(* ------------------------------ inputs --------------------------------- *)

\* Coordinates of carrier records: three valid points (two on the equator,
\* the north pole), a latitude out of range, a longitude out of range, a
\* missing latitude.
CarrierCoords ==
    {<<Num(0), Num(0)>>, <<Num(0), Num(90)>>, <<Num(90), Num(0)>>,
     <<Num(95), Num(0)>>, <<Num(0), Num(270)>>, <<NaN, Num(0)>>}

\* User locations: valid ones, then out of range, missing and non-numeric.
ValidUsers ==
    {[lat |-> Num(0), long |-> Num(0)], [lat |-> Num(0), long |-> Num(90)],
     [lat |-> Num(90), long |-> Num(0)]}
UserLocations ==
    ValidUsers \cup
    {[lat |-> Num(95), long |-> Num(0)], [lat |-> Num(0), long |-> Num(270)],
     [lat |-> NaN, long |-> Num(0)], [lat |-> Num(0), long |-> Text],
     [lat |-> Absent, long |-> Num(0)]}

\* pd.read_csv of the data file: the CSV columns, no distance column yet.
LoadedTable(coords) ==
    [columns |-> CsvColumns,
     rows |-> [i \in 1..Len(coords) |->
                  [carrier_name |-> i, lat |-> coords[i][1], long |-> coords[i][2]]],
     distance |-> <<>>]

\* load_geocoded_data: the table read, or pd.DataFrame() when reading fails.
Tables ==
    {[columns |-> {}, rows |-> <<>>, distance |-> <<>>]} \cup
    {LoadedTable(cs) : cs \in UNION {[1..k -> CarrierCoords] : k \in 0..MaxRows}}

NewCall(u, n) ==
    [user_location |-> u, n |-> n, pc |-> "start", user_coords |-> <<>>,
     st_error |-> FALSE, returned |-> EmptyFrame]

IdleChat ==
    /\ session_state = [has_messages |-> FALSE, messages |-> <<>>]
    /\ run = [pc |-> "idle", page |-> "none", prompt |-> "", chat_model |-> FALSE,
              response |-> ""]

\* One invocation on a freshly loaded table.
Init ==
    /\ geocoded_data \in Tables
    /\ \E u \in UserLocations, n \in -1..MaxN : call = [c \in {1} |-> NewCall(u, n)]
    /\ IdleChat

Next ==
    \/ \E c \in Callers : ReadUser(c)
    \/ \E c \in Callers : AssignDistance(c)
    \/ \E c \in Callers : SelectClosest(c)

Spec == Init /\ [][Next]_vars

\* Two invocations running concurrently against the same loaded table, from
\* different valid user coordinates.
InitConcurrent ==
    /\ geocoded_data \in Tables
    /\ \E u1, u2 \in ValidUsers, n1, n2 \in 1..MaxN :
          /\ u1 # u2
          /\ call = [c \in {1, 2} |-> IF c = 1 THEN NewCall(u1, n1) ELSE NewCall(u2, n2)]
    /\ IdleChat

SpecConcurrent == InitConcurrent /\ [][Next]_vars

(* ------------------- main: "Get Instant Logistics Support" ------------- *)

ChatPage == "Get Instant Logistics Support"
Pages == {"Carrier Finder", ChatPage, "Company Registration"}

\* What st.chat_input returns: None, or the text the user submitted.
NoPrompt == ""
Prompts == {"p1", "p2"}

\* response.content of a successful chat_model.invoke for the input prompt.
Responses(prompt) == IF prompt = "p1" THEN {"a1", "b1"} ELSE {"a2", "b2"}

Welcome == [role |-> "assistant", content |-> "welcome"]

messages == session_state.messages

\* Mutant of WelcomeNeeded: the welcome message is appended on every rerun.
WelcomeAlways(msgs) == TRUE

\* line 232: len(st.session_state.messages) == 0.
WelcomeNeeded(msgs) == Len(msgs) = 0

\* The list after lines 228-236: created when the key is missing, and given
\* the welcome message when it is empty.
InitialisedHistory(state) ==
    LET msgs == IF state.has_messages THEN state.messages ELSE <<>>
    IN  IF WelcomeNeeded(msgs) THEN Append(msgs, Welcome) ELSE msgs

\* A rerun of the script: the page selected in the sidebar, the prompt
\* submitted (if any) and whether init_mistral_chat_model returned a model.
\* Lines 153-163.
StartRun ==
    /\ run.pc = "idle"
    /\ \E page \in Pages, prompt \in Prompts \cup {NoPrompt}, model \in BOOLEAN :
          /\ prompt # NoPrompt =>
                 /\ page = ChatPage
                 /\ Len(InitialisedHistory(session_state)) + 2 <= MaxMessages
          /\ run' = [pc |-> "page", page |-> page, prompt |-> prompt,
                     chat_model |-> model, response |-> ""]
    /\ UNCHANGED <<geocoded_data, call, session_state>>

\* Lines 165-222 and 278-297: the other two pages leave the messages alone.
RenderOtherPage ==
    /\ run.pc = "page" /\ run.page # ChatPage
    /\ run' = [run EXCEPT !.pc = "idle"]
    /\ UNCHANGED <<geocoded_data, call, session_state>>

\* Lines 224-236: the chat history is created and welcomed.
InitChatHistory ==
    /\ run.pc = "page" /\ run.page = ChatPage
    /\ session_state' = [has_messages |-> TRUE,
                         messages |-> InitialisedHistory(session_state)]
    /\ run' = [run EXCEPT !.pc = "display"]
    /\ UNCHANGED <<geocoded_data, call>>

\* Lines 239-241: the messages are rendered.
DisplayMessages ==
    /\ run.pc = "display"
    /\ run' = [run EXCEPT !.pc = "input"]
    /\ UNCHANGED <<geocoded_data, call, session_state>>

\* Lines 244-246: with a prompt, the user message is appended; without one
\* the script ends.
ChatInput ==
    /\ run.pc = "input"
    /\ IF run.prompt = NoPrompt
       THEN /\ run' = [run EXCEPT !.pc = "idle"]
            /\ UNCHANGED session_state
       ELSE /\ session_state' =
                   [session_state EXCEPT
                       !.messages = Append(@, [role |-> "user", content |-> run.prompt])]
            /\ run' = [run EXCEPT !.pc = "show_user"]
    /\ UNCHANGED <<geocoded_data, call>>

\* Lines 249-252: the prompt is rendered and the spinner opened.
ShowUserMessage ==
    /\ run.pc = "show_user"
    /\ run' = [run EXCEPT !.pc = "invoke"]
    /\ UNCHANGED <<geocoded_data, call, session_state>>

\* Lines 255-263: chat_model.invoke returns a response.
InvokeSucceeds ==
    /\ run.pc = "invoke"
    /\ run.chat_model
    /\ \E r \in Responses(run.prompt) : run' = [run EXCEPT !.pc = "append", !.response = r]
    /\ UNCHANGED <<geocoded_data, call, session_state>>

\* Lines 255-263, 275-276: the invocation raises (chat_model is None, or the
\* API call fails); the error is shown and the script ends.
InvokeFails ==
    /\ run.pc = "invoke"
    /\ run' = [run EXCEPT !.pc = "idle"]
    /\ UNCHANGED <<geocoded_data, call, session_state>>

\* Lines 266-269: the assistant response is appended.
AppendReply ==
    /\ run.pc = "append"
    /\ session_state' =
           [session_state EXCEPT
               !.messages = Append(@, [role |-> "assistant", content |-> run.response])]
    /\ run' = [run EXCEPT !.pc = "show_reply"]
    /\ UNCHANGED <<geocoded_data, call>>

\* Lines 272-273: the response is rendered and the script ends.
ShowReply ==
    /\ run.pc = "show_reply"
    /\ run' = [run EXCEPT !.pc = "idle"]
    /\ UNCHANGED <<geocoded_data, call, session_state>>

\* A widget event during a run stops the script at its next st.* call (the
\* stop is not an Exception, so line 275 does not catch it).
StopAtElement ==
    /\ run.pc \in {"page", "display", "input", "show_user", "invoke", "show_reply"}
    /\ run' = [run EXCEPT !.pc = "idle"]
    /\ UNCHANGED <<geocoded_data, call, session_state>>

InitChat ==
    /\ geocoded_data = [columns |-> {}, rows |-> <<>>, distance |-> <<>>]
    /\ call = <<>>
    /\ IdleChat

NextChat ==
    \/ StartRun
    \/ RenderOtherPage
    \/ InitChatHistory
    \/ DisplayMessages
    \/ ChatInput
    \/ ShowUserMessage
    \/ InvokeSucceeds
    \/ InvokeFails
    \/ AppendReply
    \/ ShowReply
    \/ StopAtElement

SpecChat == InitChat /\ [][NextChat]_vars

(* ------------------------- properties: ranking ------------------------- *)

\* The Coordinate of the data model: both values present, numeric, in range.
ValidCoordinate(lat, long) ==
    /\ lat.kind = "num" /\ long.kind = "num"
    /\ lat.v >= -90 /\ lat.v <= 90
    /\ long.v >= -180 /\ long.v <= 180

Done(c) == call[c].pc = "done"
ValidUser(c) == ValidCoordinate(call[c].user_location.lat, call[c].user_location.long)
ValidRow(row) == ValidCoordinate(row.lat, row.long)
ValidCarriers == {i \in 1..Len(geocoded_data.rows) : ValidRow(geocoded_data.rows[i])}
Returned(c) == call[c].returned.rows
ReturnedIndex(c) == {Returned(c)[k].index : k \in 1..Len(Returned(c))}
\* The distance of table row i from the user coordinate of invocation c.
DistanceFrom(c, i) ==
    calculate_distance(<<call[c].user_location.lat, call[c].user_location.long>>,
                       geocoded_data.rows[i])
Min(a, b) == IF a <= b THEN a ELSE b

\* C1: for a valid user coordinate and n >= 1 the result is the n closest
\* carriers: every returned carrier has a valid coordinate, and no valid
\* carrier left out is strictly closer than a returned one.
C1_NClosest ==
    \A c \in Callers :
        (Done(c) /\ ValidUser(c) /\ call[c].n >= 1) =>
            /\ \A k \in 1..Len(Returned(c)) : ValidRow(Returned(c)[k])
            /\ \A i \in ValidCarriers \ ReturnedIndex(c) :
                   \A k \in 1..Len(Returned(c)) :
                       ~(DistanceFrom(c, i) < Returned(c)[k].distance)

\* C2: for a valid user coordinate and n >= 1 the result has
\* min(n, number of carriers with a valid coordinate) rows.
C2_Length ==
    \A c \in Callers :
        (Done(c) /\ ValidUser(c) /\ call[c].n >= 1) =>
            Len(Returned(c)) = Min(call[c].n, Cardinality(ValidCarriers))

\* C3: a carrier record whose coordinate is missing, malformed or out of
\* range never appears in the result. (The claim adds that each such record
\* adds one to a skipped count handed to the caller; the function returns a
\* DataFrame and nothing else, so only the exclusion is stated here.)
C3_InvalidExcluded ==
    \A c \in Callers :
        Done(c) => \A k \in 1..Len(Returned(c)) : ValidRow(Returned(c)[k])

\* C4: no step of get_closest_carriers changes the caller's carrier table:
\* its columns and the values of its records stay as they were.
C4_TableUnchanged ==
    [][/\ geocoded_data'.columns = geocoded_data.columns
       /\ geocoded_data'.rows = geocoded_data.rows]_vars

\* C5: with an invalid user coordinate the call ends in an InvalidInputError
\* surfaced to the caller; it never returns a result, empty or not. (The
\* function has two ways to end, both a returned DataFrame, so a finished
\* call has returned one.)
C5_InvalidUserFails ==
    \A c \in Callers : ~ValidUser(c) => ~Done(c)

\* C6: with n <= 0 the call ends in an InvalidInputError; it never returns
\* an (empty) result.
C6_NonPositiveNFails ==
    \A c \in Callers : call[c].n <= 0 => ~Done(c)

\* C7: the result is ordered by distance ascending, every distance is >= 0,
\* carriers at equal distance appear in table order, and of the carriers
\* tied at the cut the first in the table are kept.
C7_OrderedStable ==
    \A c \in Callers :
        Done(c) =>
            /\ \A k \in 1..Len(Returned(c)) : Returned(c)[k].distance >= 0
            /\ \A k \in 1..Len(Returned(c)) - 1 :
                   \/ Returned(c)[k].distance < Returned(c)[k + 1].distance
                   \/ /\ Returned(c)[k].distance = Returned(c)[k + 1].distance
                      /\ Returned(c)[k].index < Returned(c)[k + 1].index
            /\ \A k \in 1..Len(Returned(c)) :
                   \A i \in 1..Len(geocoded_data.rows) :
                       (i \notin ReturnedIndex(c)
                        /\ geocoded_data.distance[i] = Returned(c)[k].distance)
                       => Returned(c)[k].index < i

\* What invocation c may return when it runs alone on the table.
AloneOutcomes(c) ==
    LET u == call[c].user_location
        t == SetDistance(geocoded_data, ApplyDistance(geocoded_data, <<u.lat, u.long>>))
    IN  IF u.lat.kind = "absent" \/ u.long.kind = "absent" \/ ProjectionRaises(t)
        THEN {EmptyFrame}
        ELSE {[columns |-> ResultColumns, rows |-> TakeRows(t, idx)] :
                  idx \in nsmallest(t.distance, call[c].n)}

\* C8: of two invocations running concurrently against the same table from
\* different user coordinates, each returns what it would return run alone,
\* with the distances measured from its own user coordinate.
C8_NoInterference ==
    \A c \in Callers : Done(c) => call[c].returned \in AloneOutcomes(c)

\* C9: for an empty carrier table, the column-less one of a failed load
\* included, a valid user coordinate and n >= 1, the result is empty and no
\* error is raised or reported. (The skipped count of the claim is no part
\* of what the function returns.)
C9_EmptyTable ==
    \A c \in Callers :
        (Done(c) /\ ValidUser(c) /\ call[c].n >= 1 /\ Len(geocoded_data.rows) = 0) =>
            /\ Returned(c) = <<>>
            /\ ~call[c].st_error

(* --------------------------- properties: chat -------------------------- *)

IsPrefix(s, t) == Len(s) <= Len(t) /\ SubSeq(t, 1, Len(s)) = s
Last(s) == s[Len(s)]

\* What holds of the message list in every state: the welcome message is
\* first and occurs once, every assistant reply directly follows the prompt
\* it answers, and the model is invoked only with the prompt already appended.
ChatHistoryInv ==
    /\ session_state.has_messages /\ run.pc \notin {"page"} => Len(messages) >= 1
    /\ Len(messages) >= 1 => messages[1] = Welcome
    /\ \A i \in 2..Len(messages) :
           /\ messages[i] # Welcome
           /\ messages[i].role = "assistant" =>
                  /\ messages[i - 1].role = "user"
                  /\ messages[i].content \in Responses(messages[i - 1].content)
    /\ run.pc \in {"show_user", "invoke", "append"} =>
           Last(messages) = [role |-> "user", content |-> run.prompt]

\* What holds of every step: the list only grows at its end, a reply is
\* appended only from a response the model returned, and a failed or stopped
\* invocation appends nothing.
ChatHistoryStep ==
    /\ IsPrefix(messages, messages')
    /\ session_state.has_messages => session_state'.has_messages
    /\ (messages' # messages /\ Last(messages').role = "assistant"
        /\ Last(messages') # Welcome) =>
           /\ run.pc = "append"
           /\ Last(messages').content = run.response
           /\ run.response \in Responses(run.prompt)
    /\ (run.pc = "invoke" /\ run'.pc = "idle") => messages' = messages

\* C10: the session message list is append-only, starts with the welcome
\* message, which occurs exactly once, holds every submitted prompt before
\* the model is invoked, and gets an assistant reply only after a successful
\* invocation, directly after the prompt it answers.
C10_ChatHistory == []ChatHistoryInv /\ [][ChatHistoryStep]_vars

\* A session in which one prompt failed and a later one was answered.
C10_Witness ==
    /\ run.pc = "idle"
    /\ Len(messages) = 4
    /\ messages[2].role = "user" /\ messages[3].role = "user"
    /\ messages[4].role = "assistant"

====
